---- MODULE Spec2Model ----
(***************************************************************************)
(* Model of kicad_utils.py: the text-search-and-splice engine that builds  *)
(* and patches KiCad schematic files.                                      *)
(*                                                                         *)
(* A text is a sequence of tokens.  One token stands for one character of  *)
(* the Python string, with these runs of characters written as a single    *)
(* token: a keyword or atom (lib_symbols, symbol, 1.27, Device, ...), a    *)
(* run of blanks (" ").  Parentheses, double quotes, newlines and the      *)
(* characters of a property value are one token each, so every index       *)
(* computation of the code (+1, len(anchor), slices) is done here on       *)
(* token indices.  Indices are 0-based as in Python.                       *)
(***************************************************************************)
EXTENDS Integers, Sequences, FiniteSets, TLC

VARIABLES
    files,       \* storage: path -> text of the file stored there
    pc,          \* position of the running call: idle, fold, done, raised
    op,          \* the lifecycle function called: none, create, modify
    path,        \* file_path argument of modify_kicad_sch_file
    components,  \* components argument
    wires,       \* wires argument
    ci,          \* number of components the first for loop has consumed
    wi,          \* number of wires the second for loop has consumed
    doc,         \* temp_kicad_sch_file
    err,         \* the exception that ended the call, "" when none
    nextUuid,    \* number of uuid.uuid4() values drawn so far
    arg,         \* arguments of the pure function being applied
    ret          \* its return value

vars == <<files, pc, op, path, components, wires, ci, wi, doc, err,
          nextUuid, arg, ret>>

(***************************************************************************)
(* Bounds                                                                  *)
(***************************************************************************)
MaxLen == 5      \* longest text handed to extract_subsection on its own
MaxVal == 3      \* longest property value handed to extract_property_value
MaxComps == 2    \* longest components list
MaxWires == 2    \* longest wires list

(***************************************************************************)
(* Tokens and Python string primitives                                     *)
(***************************************************************************)
LP == "("
RP == ")"
QT == "\""
NL == "\n"
SP == " "

\* Python None; a value v that is not None is carried as <<v>> where the
\* two have to be told apart (extract_property_value).
None == <<>>

Min(a, b) == IF a < b THEN a ELSE b
Max(a, b) == IF a > b THEN a ELSE b

\* s[a:b]: negative bounds count from the end, bounds are clamped to the text
Slice(s, a, b) ==
    LET n == Len(s)
        lo == IF a < 0 THEN Max(n + a, 0) ELSE Min(a, n)
        hi == IF b < 0 THEN Max(n + b, 0) ELSE Min(b, n)
    IN  SubSeq(s, lo + 1, hi)

SliceTo(s, b) == Slice(s, 0, b)
SliceFrom(s, a) == Slice(s, a, Len(s))

StartsAt(s, sub, i) ==
    /\ i >= 0
    /\ i + Len(sub) <= Len(s)
    /\ \A k \in 1..Len(sub) : s[i + k] = sub[k]

\* lowest index in lo..hi at which sub starts, -1 when there is none; the
\* left to right search is evaluated by halving the index range
RECURSIVE FindIn(_, _, _, _)
FindIn(s, sub, lo, hi) ==
    IF lo > hi THEN -1
    ELSE IF lo = hi THEN (IF StartsAt(s, sub, lo) THEN lo ELSE -1)
    ELSE LET mid == (lo + hi) \div 2
             left == FindIn(s, sub, lo, mid)
         IN  IF left # -1 THEN left ELSE FindIn(s, sub, mid + 1, hi)

\* s.find(sub, start)
Find(s, sub, start) == FindIn(s, sub, Max(start, 0), Len(s) - Len(sub))

\* s.replace(old, new): every occurrence, left to right, not overlapping
RECURSIVE Replace(_, _, _)
Replace(s, old, new) ==
    LET i == Find(s, old, 0)
    IN  IF i = -1 THEN s
        ELSE SliceTo(s, i) \o new \o Replace(SliceFrom(s, i + Len(old)), old, new)

(***************************************************************************)
(* extract_subsection                                                      *)
(***************************************************************************)
\* the for loop of extract_subsection over the indices lo..hi, entered with
\* the given balance: <<i, 0>> when the balance is zero after content[i] for
\* a first i, <<-1, balance after content[hi]>> otherwise.  The loop is
\* evaluated by halving the index range.
RECURSIVE ScanBalance(_, _, _, _)
ScanBalance(content, lo, hi, balance) ==
    IF lo > hi THEN <<-1, balance>>
    ELSE IF lo = hi
    THEN LET b == IF content[lo + 1] = LP THEN balance + 1
                  ELSE IF content[lo + 1] = RP THEN balance - 1
                  ELSE balance
         IN  IF b = 0 THEN <<lo, 0>> ELSE <<-1, b>>
    ELSE LET mid == (lo + hi) \div 2
             left == ScanBalance(content, lo, mid, balance)
         IN  IF left[1] # -1 THEN left
             ELSE ScanBalance(content, mid + 1, hi, left[2])

\* extract_subsection with the end taken at i instead of i + 1
extract_subsection_end_at_i(content, subsection) ==
    LET subsection_start == Find(content, subsection, 0)
    IN  IF subsection_start = -1 THEN None
        ELSE LET scan == ScanBalance(content, subsection_start,
                                     Len(content) - 1, 0)
             IN  IF scan[1] # -1
                 THEN LET subsection_end == scan[1]
                      IN  <<subsection_start, subsection_end,
                            Slice(content, subsection_start, subsection_end)>>
                 ELSE None

extract_subsection(content, subsection) ==
    LET subsection_start == Find(content, subsection, 0)
    IN  IF subsection_start = -1 THEN None
        ELSE LET scan == ScanBalance(content, subsection_start,
                                     Len(content) - 1, 0)
             IN  IF scan[1] # -1
                 THEN LET subsection_end == scan[1] + 1
                      IN  <<subsection_start, subsection_end,
                            Slice(content, subsection_start, subsection_end)>>
                 ELSE None

(***************************************************************************)
(* extract_property_value                                                  *)
(***************************************************************************)
PropertyTag(property_name) == <<LP, "property", SP, QT, property_name, QT>>

extract_property_value(subsection, property_name) ==
    LET property_start == Find(subsection, PropertyTag(property_name), 0)
    IN  IF property_start = -1 THEN None
        ELSE LET value_start ==
                     Find(subsection, <<QT>>,
                          property_start + Len(PropertyTag(property_name))) + 1
                 value_end == Find(subsection, <<QT>>, value_start + 1)
             IN  <<Slice(subsection, value_start + 1, value_end)>>

(***************************************************************************)
(* Formatting of values interpolated into the f-strings                    *)
(***************************************************************************)
Digit(d) == <<"0", "1", "2", "3", "4", "5", "6", "7", "8", "9">>[d + 1]

\* str(n) of a non-negative int, one token per digit
RECURSIVE Str(_)
Str(n) == IF n < 10 THEN <<Digit(n)>> ELSE Str(n \div 10) \o <<Digit(n % 10)>>

\* f"{v}" of an optional text: None is written as the four letters None
Format(v) == IF v = None THEN <<"N", "o", "n", "e">> ELSE v[1]

\* f"{uuid.uuid4()}": the n-th value drawn, different from all the others
Uuid4(n) == <<"u">> \o Str(n)

Quoted(v) == <<QT>> \o v \o <<QT>>

\* one indented line of a template
Line(tokens) == <<SP>> \o tokens \o <<NL>>

(***************************************************************************)
(* create_empty_kicad_sch_template                                         *)
(***************************************************************************)
create_empty_kicad_sch_template(u) ==
    <<LP, "kicad_sch", NL>>
    \o Line(<<LP, "version", SP, "20231120", RP>>)
    \o Line(<<LP, "generator", SP, QT, "SidYifanOmarNeel", QT, RP>>)
    \o Line(<<LP, "generator_version", SP, QT, "8.0", QT, RP>>)
    \o Line(<<LP, "uuid", SP>> \o Quoted(Uuid4(u)) \o <<RP>>)
    \o Line(<<LP, "paper", SP, QT, "A4", QT, RP>>)
    \o Line(<<LP, "lib_symbols", RP>>)
    \o Line(<<LP, "sheet_instances">>)
    \o Line(<<LP, "path", SP, QT, "/", QT>>)
    \o Line(<<LP, "page", SP, QT, "1", QT, RP>>)
    \o Line(<<RP>>)
    \o Line(<<RP>>)
    \o <<RP>>

(***************************************************************************)
(* The external symbol library: one file per library name                  *)
(***************************************************************************)
LibProperty(name, value) ==
    Line(<<LP, "property", SP, QT, name, QT, SP>> \o Quoted(value))
    \o Line(<<LP, "at", SP, "0", SP, "0", SP, "0", RP>>)
    \o Line(<<RP>>)

LibUnit(name) ==
    Line(<<LP, "symbol", SP, QT, name, QT>>)
    \o Line(<<LP, "rectangle", RP>>)
    \o Line(<<RP>>)

\* Device.kicad_sym: R has a Value and a Description; C has no Description;
\* L has an empty Description and no unit sub-symbol
DeviceLibrary ==
    <<LP, "kicad_symbol_lib", NL>>
    \o Line(<<LP, "symbol", SP, QT, "R", QT>>)
    \o LibProperty("Reference", <<"R">>)
    \o LibProperty("Value", <<"R">>)
    \o LibProperty("Description", <<"R", "e", "s">>)
    \o LibUnit("R_0_1")
    \o Line(<<RP>>)
    \o Line(<<LP, "symbol", SP, QT, "C", QT>>)
    \o LibProperty("Reference", <<"C">>)
    \o LibProperty("Value", <<"C", "a", "p">>)
    \o LibUnit("C_0_1")
    \o Line(<<RP>>)
    \o Line(<<LP, "symbol", SP, QT, "L", QT>>)
    \o LibProperty("Reference", <<"L">>)
    \o LibProperty("Value", <<"L">>)
    \o LibProperty("Description", <<>>)
    \o Line(<<RP>>)
    \o <<RP>>

\* the .kicad_sym files under PATH_TO_SYMBOL_LIBRARY, by library name
SymbolLibrary == [lib_name \in {<<"Device">>} |-> DeviceLibrary]

(***************************************************************************)
(* extract_symbol_definition                                               *)
(***************************************************************************)
\* lib_id.split(":")
RECURSIVE Split(_)
Split(s) ==
    LET i == Find(s, <<":">>, 0)
    IN  IF i = -1 THEN <<s>>
        ELSE <<SliceTo(s, i)>> \o Split(SliceFrom(s, i + 1))

SymbolAnchor(name) == <<LP, "symbol", SP, QT>> \o name \o <<QT>>

\* [err |-> the exception raised, "" when none; def |-> the returned text]
extract_symbol_definition(lib_id) ==
    LET parts == Split(lib_id)
    IN  IF Len(parts) < 2 THEN [err |-> "IndexError", def |-> <<>>]
        ELSE LET lib_name == parts[1]
                 symbol_name == parts[2]
             IN  IF lib_name \notin DOMAIN SymbolLibrary
                 THEN [err |-> "FileNotFoundError", def |-> <<>>]
                 ELSE LET lib_file_content == SymbolLibrary[lib_name]
                          subsection == extract_subsection(
                              lib_file_content, SymbolAnchor(symbol_name))
                      IN  IF subsection # None
                          THEN [err |-> "",
                                def |-> Replace(subsection[3],
                                                SymbolAnchor(symbol_name),
                                                SymbolAnchor(lib_id))]
                          ELSE [err |-> "Symbol not found", def |-> <<>>]

(***************************************************************************)
(* add_component_to_kicad_sch_file                                         *)
(***************************************************************************)
LibSymbolsAnchor == <<LP, "lib_symbols">>
UuidAnchor == <<LP, "uuid">>

\* f'component_dict["lib_id"]"': the f-string has no replacement field, so
\* the text searched for is this literal
MembershipNeedle == <<"component_dict", "[", QT, "lib_id", QT, "]", QT>>

\* one (property ...) block of the symbol instance template
InstanceProperty(name, value, x, y, hidden) ==
    Line(<<LP, "property", SP, QT, name, QT, SP>> \o Quoted(value))
    \o Line(<<LP, "at", SP>> \o x \o <<SP>> \o y \o <<SP, "0", RP>>)
    \o Line(<<LP, "effects">>)
    \o Line(<<LP, "font">>)
    \o Line(<<LP, "size", SP, "1.27", SP, "1.27", RP>>)
    \o Line(<<RP>>)
    \o (IF hidden THEN Line(<<LP, "hide", SP, "yes", RP>>) ELSE <<>>)
    \o Line(<<RP>>)
    \o Line(<<RP>>)

InstanceHeader == <<LP, "symbol", NL, SP, LP, "lib_id", SP, QT>>

\* the symbol_instance f-string
symbol_instance(component_dict, property_value, description, uuid_value, u) ==
    LET x == Str(component_dict.x)
        y == Str(component_dict.y)
    IN  <<NL, LP, "symbol", NL>>
        \o Line(<<LP, "lib_id", SP>> \o Quoted(component_dict.lib_id) \o <<RP>>)
        \o Line(<<LP, "at", SP>> \o x \o <<SP>> \o y \o <<SP>>
                \o Str(component_dict.angle) \o <<RP>>)
        \o Line(<<LP, "unit", SP, "1", RP>>)
        \o Line(<<LP, "exclude_from_sim", SP, "no", RP>>)
        \o Line(<<LP, "in_bom", SP, "yes", RP>>)
        \o Line(<<LP, "on_board", SP, "yes", RP>>)
        \o Line(<<LP, "dnp", SP, "no", RP>>)
        \o Line(<<LP, "fields_autoplaced", SP, "yes", RP>>)
        \o Line(<<LP, "uuid", SP>> \o Quoted(Uuid4(u)) \o <<RP>>)
        \o InstanceProperty("Reference", component_dict.reference_name,
                            x, y, FALSE)
        \o InstanceProperty("Value", Format(property_value), x, y, FALSE)
        \o InstanceProperty("Footprint", <<>>, x, y, TRUE)
        \o InstanceProperty("Datasheet", <<"~">>, x, y, TRUE)
        \o InstanceProperty("Description", Format(description), x, y, TRUE)
        \o Line(<<LP, "instances">>)
        \o Line(<<LP, "project", SP>> \o Quoted(<<"temp_">> \o uuid_value))
        \o Line(<<LP, "path", SP>> \o Quoted(<<"/">> \o uuid_value))
        \o Line(<<LP, "reference", SP>>
                \o Quoted(component_dict.reference_name) \o <<RP>>)
        \o Line(<<LP, "unit", SP, "1", RP>>)
        \o Line(<<RP>>)
        \o Line(<<RP>>)
        \o Line(<<RP>>)
        \o <<SP, RP, SP, NL>>

Raise(e) == [err |-> e, doc |-> <<>>]

\* kicad_sch_file[:point] + f"\n {block} \n " + kicad_sch_file[point:]
Splice(kicad_sch_file, point, block) ==
    SliceTo(kicad_sch_file, point)
    \o <<NL, SP>> \o block \o <<SP, NL, SP>>
    \o SliceFrom(kicad_sch_file, point)

\* the insertion point taken right after the opening of the section
symbol_insert_point_at_opening(kicad_sch_file, libSymbols) ==
    libSymbols[1] + Len(LibSymbolsAnchor)

\* the insertion point taken before the closing parenthesis of the root
symbol_insert_point_at_end(kicad_sch_file, libSymbols) ==
    Len(kicad_sch_file) - 1

\* symbol_insert_point of add_component_to_kicad_sch_file: one character
\* past the end of the lib_symbols section
symbol_insert_point(kicad_sch_file, libSymbols) == libSymbols[2] + 1

\* lines 140-243, entered with the text that lines 133-138 have produced
AddSymbolInstance(kicad_sch_file, component_dict, u) ==
    LET curr_lib_id == component_dict.lib_id
        uuid_section == extract_subsection(kicad_sch_file, UuidAnchor)
        libSymbols == extract_subsection(kicad_sch_file, LibSymbolsAnchor)
    IN  IF libSymbols = None THEN Raise("lib_symbols not found")
        ELSE
        LET symbol_section ==
                extract_subsection(libSymbols[3], SymbolAnchor(curr_lib_id))
        IN  IF symbol_section = None THEN Raise("symbol_section not found")
            ELSE IF uuid_section = None THEN Raise("UnboundLocalError")
            ELSE
            LET start == Find(uuid_section[3], <<QT>>, 0) + 1
                end == Find(uuid_section[3], <<QT>>, start)
                uuid_value == Slice(uuid_section[3], start, end)
                description ==
                    extract_property_value(symbol_section[3], "Description")
                property_value ==
                    extract_property_value(symbol_section[3], "Value")
                instance == symbol_instance(component_dict, property_value,
                                            description, uuid_value, u)
            IN  [err |-> "",
                 doc |-> Splice(kicad_sch_file,
                                symbol_insert_point(kicad_sch_file, libSymbols),
                                instance)]

\* [err |-> the exception raised, "" when none; doc |-> the returned text];
\* u is the number of the uuid4 value the call draws
add_component_to_kicad_sch_file(kicad_sch_file, component_dict, u) ==
    LET libSymbols == extract_subsection(kicad_sch_file, LibSymbolsAnchor)
    IN  IF libSymbols = None THEN Raise("TypeError")
        ELSE IF Find(libSymbols[3], MembershipNeedle, 0) = -1
        THEN LET libSymbols_insert_point ==
                     libSymbols[1] + Len(LibSymbolsAnchor)
                 definition == extract_symbol_definition(component_dict.lib_id)
             IN  IF definition.err # "" THEN Raise(definition.err)
                 ELSE AddSymbolInstance(
                          Splice(kicad_sch_file, libSymbols_insert_point,
                                 definition.def),
                          component_dict, u)
        ELSE AddSymbolInstance(kicad_sch_file, component_dict, u)

(***************************************************************************)
(* add_wire_to_kicad_sch_file                                              *)
(***************************************************************************)
WireHeader == <<LP, "wire", NL>>

\* wire_template with the end point written as (end_y, end_x)
wire_template_end_swapped(wire_dict, u) ==
    WireHeader
    \o Line(<<LP, "pts">>)
    \o Line(<<LP, "xy", SP>> \o Str(wire_dict.x) \o <<SP>> \o Str(wire_dict.y)
            \o <<RP, SP, LP, "xy", SP>> \o Str(wire_dict.end_y) \o <<SP>>
            \o Str(wire_dict.end_x) \o <<RP>>)
    \o Line(<<RP>>)
    \o Line(<<LP, "stroke">>)
    \o Line(<<LP, "width", SP, "0", RP>>)
    \o Line(<<LP, "type", SP, "default", RP>>)
    \o Line(<<RP>>)
    \o Line(<<LP, "uuid", SP>> \o Quoted(Uuid4(u)) \o <<RP>>)
    \o <<SP, RP>>

wire_template(wire_dict, u) ==
    WireHeader
    \o Line(<<LP, "pts">>)
    \o Line(<<LP, "xy", SP>> \o Str(wire_dict.x) \o <<SP>> \o Str(wire_dict.y)
            \o <<RP, SP, LP, "xy", SP>> \o Str(wire_dict.end_x) \o <<SP>>
            \o Str(wire_dict.end_y) \o <<RP>>)
    \o Line(<<RP>>)
    \o Line(<<LP, "stroke">>)
    \o Line(<<LP, "width", SP, "0", RP>>)
    \o Line(<<LP, "type", SP, "default", RP>>)
    \o Line(<<RP>>)
    \o Line(<<LP, "uuid", SP>> \o Quoted(Uuid4(u)) \o <<RP>>)
    \o <<SP, RP>>

add_wire_to_kicad_sch_file(kicad_sch_file, wire_dict, u) ==
    LET libSymbols == extract_subsection(kicad_sch_file, LibSymbolsAnchor)
    IN  IF libSymbols = None THEN Raise("TypeError")
        ELSE LET wire_insert_point == libSymbols[2] + 1
             IN  [err |-> "",
                  doc |-> Splice(kicad_sch_file, wire_insert_point,
                                 wire_template(wire_dict, u))]

(***************************************************************************)
(* Inputs of the lifecycle functions                                       *)
(***************************************************************************)
Component(name, x, y, angle, ref) ==
    [lib_id |-> <<"Device", ":", name>>, x |-> x, y |-> y, angle |-> angle,
     reference_name |-> <<ref>>]

\* Device:X is not defined in Device.kicad_sym
ComponentDescriptors ==
    {Component("R", 100, 50, 0, "R1"), Component("C", 20, 30, 90, "C1"),
     Component("L", 7, 8, 180, "L1"), Component("X", 1, 2, 270, "X1")}

WireDescriptors ==
    {[x |-> 10, y |-> 10, end_x |-> 20, end_y |-> 10],
     [x |-> 20, y |-> 10, end_x |-> 20, end_y |-> 35]}

ListsOf(S, n) == UNION {[1..k -> S] : k \in 0..n}

\* a file without a lib_symbols section
NoLibFile ==
    <<LP, "kicad_sch", NL>>
    \o Line(<<LP, "uuid", SP>> \o Quoted(Uuid4(0)) \o <<RP>>)
    \o <<RP>>

\* a truncated file: the lib_symbols section never closes
UnclosedFile ==
    <<LP, "kicad_sch", NL>>
    \o Line(<<LP, "uuid", SP>> \o Quoted(Uuid4(0)) \o <<RP>>)
    \o Line(<<LP, "lib_symbols">>)

\* a file that ends with its lib_symbols section
LibLastFile ==
    Line(<<LP, "uuid", SP>> \o Quoted(Uuid4(0)) \o <<RP>>)
    \o <<LP, "lib_symbols", RP>>

\* the file an earlier create_kicad_sch_file([Device:R], []) has written,
\* which drew the uuid4 values 0 (document), 1 (instance) and 2 (file name)
EarlierFile ==
    add_component_to_kicad_sch_file(create_empty_kicad_sch_template(0),
                                    Component("R", 100, 50, 0, "R1"), 1).doc

TempPath(u) == <<"temp_">> \o Uuid4(u) \o <<".kicad_sch">>

NoLibPath == <<"nolib.kicad_sch">>
UnclosedPath == <<"unclosed.kicad_sch">>
LibLastPath == <<"liblast.kicad_sch">>
EarlierPath == TempPath(2)
MissingPath == <<"missing.kicad_sch">>

Paths == {NoLibPath, UnclosedPath, LibLastPath, EarlierPath, MissingPath}

InitialFiles ==
    [p \in Paths \ {MissingPath} |->
        IF p = NoLibPath THEN NoLibFile
        ELSE IF p = UnclosedPath THEN UnclosedFile
        ELSE IF p = LibLastPath THEN LibLastFile
        ELSE EarlierFile]

(***************************************************************************)
(* create_kicad_sch_file and modify_kicad_sch_file                         *)
(***************************************************************************)
Init ==
    /\ files = InitialFiles
    /\ pc = "idle"
    /\ op = "none"
    /\ path = <<>>
    /\ components = <<>>
    /\ wires = <<>>
    /\ ci = 0
    /\ wi = 0
    /\ doc = <<>>
    /\ err = ""
    /\ nextUuid = 3
    /\ arg = <<>>
    /\ ret = <<>>

\* create_kicad_sch_file up to the first for loop
CreateCall ==
    /\ pc = "idle"
    /\ \E cs \in ListsOf(ComponentDescriptors, MaxComps),
          ws \in ListsOf(WireDescriptors, MaxWires) :
          /\ components' = cs
          /\ wires' = ws
    /\ op' = "create"
    /\ doc' = create_empty_kicad_sch_template(nextUuid)
    /\ nextUuid' = nextUuid + 1
    /\ pc' = "fold"
    /\ UNCHANGED <<files, path, ci, wi, err, arg, ret>>

\* modify_kicad_sch_file up to the first for loop
ModifyCall ==
    /\ pc = "idle"
    /\ \E p \in Paths,
          cs \in ListsOf(ComponentDescriptors, MaxComps),
          ws \in ListsOf(WireDescriptors, MaxWires) :
          /\ path' = p
          /\ components' = cs
          /\ wires' = ws
          /\ IF p \in DOMAIN files
             THEN /\ doc' = files[p]
                  /\ pc' = "fold"
                  /\ err' = err
             ELSE /\ doc' = doc
                  /\ pc' = "raised"
                  /\ err' = "FileNotFoundError"
    /\ op' = "modify"
    /\ UNCHANGED <<files, ci, wi, nextUuid, arg, ret>>

\* FoldComponent with modify_kicad_sch_file writing the file back after
\* every insertion
FoldComponent_writing_through ==
    /\ pc = "fold"
    /\ ci < Len(components)
    /\ LET r == add_component_to_kicad_sch_file(doc, components[ci + 1],
                                                nextUuid)
       IN  IF r.err = ""
           THEN /\ doc' = r.doc
                /\ ci' = ci + 1
                /\ nextUuid' = nextUuid + 1
                /\ files' = IF op = "modify"
                            THEN [files EXCEPT ![path] = r.doc]
                            ELSE files
                /\ UNCHANGED <<pc, err>>
           ELSE /\ pc' = "raised"
                /\ err' = r.err
                /\ UNCHANGED <<files, doc, ci, nextUuid>>
    /\ UNCHANGED <<op, path, components, wires, wi, arg, ret>>

\* one iteration of "for component in components"
FoldComponent ==
    /\ pc = "fold"
    /\ ci < Len(components)
    /\ LET r == add_component_to_kicad_sch_file(doc, components[ci + 1],
                                                nextUuid)
       IN  IF r.err = ""
           THEN /\ doc' = r.doc
                /\ ci' = ci + 1
                /\ nextUuid' = nextUuid + 1
                /\ UNCHANGED <<pc, err>>
           ELSE /\ pc' = "raised"
                /\ err' = r.err
                /\ UNCHANGED <<doc, ci, nextUuid>>
    /\ UNCHANGED <<files, op, path, components, wires, wi, arg, ret>>

\* one iteration of "for wire in wires"
FoldWire ==
    /\ pc = "fold"
    /\ ci = Len(components)
    /\ wi < Len(wires)
    /\ LET r == add_wire_to_kicad_sch_file(doc, wires[wi + 1], nextUuid)
       IN  IF r.err = ""
           THEN /\ doc' = r.doc
                /\ wi' = wi + 1
                /\ nextUuid' = nextUuid + 1
                /\ UNCHANGED <<pc, err>>
           ELSE /\ pc' = "raised"
                /\ err' = r.err
                /\ UNCHANGED <<doc, wi, nextUuid>>
    /\ UNCHANGED <<files, op, path, components, wires, ci, arg, ret>>

\* create_kicad_sch_file after the loops: write the new file, return its path
SaveCreate ==
    /\ pc = "fold"
    /\ op = "create"
    /\ ci = Len(components)
    /\ wi = Len(wires)
    /\ LET file_path == TempPath(nextUuid)
       IN  /\ files' = [p \in DOMAIN files \cup {file_path} |->
                           IF p = file_path THEN doc ELSE files[p]]
           /\ ret' = file_path
    /\ nextUuid' = nextUuid + 1
    /\ pc' = "done"
    /\ UNCHANGED <<op, path, components, wires, ci, wi, doc, err, arg>>

\* modify_kicad_sch_file after the loops: overwrite the file, return the text
SaveModify ==
    /\ pc = "fold"
    /\ op = "modify"
    /\ ci = Len(components)
    /\ wi = Len(wires)
    /\ files' = [files EXCEPT ![path] = doc]
    /\ ret' = doc
    /\ pc' = "done"
    /\ UNCHANGED <<op, path, components, wires, ci, wi, doc, err, nextUuid,
                   arg>>

Next ==
    \/ CreateCall
    \/ ModifyCall
    \/ FoldComponent
    \/ FoldWire
    \/ SaveCreate
    \/ SaveModify

Spec == Init /\ [][Next]_vars

(***************************************************************************)
(* The two text primitives applied on their own to bounded inputs          *)
(***************************************************************************)
NoCall ==
    /\ files = InitialFiles
    /\ op = "none"
    /\ path = <<>>
    /\ components = <<>>
    /\ wires = <<>>
    /\ ci = 0
    /\ wi = 0
    /\ doc = <<>>
    /\ err = ""
    /\ nextUuid = 3

TextsUpTo(S, n) == UNION {[1..k -> S] : k \in 0..n}

\* number of "(" minus number of ")" in s
Depth(s) ==
    Cardinality({i \in 1..Len(s) : s[i] = LP})
    - Cardinality({i \in 1..Len(s) : s[i] = RP})

\* balanced and well nested: no prefix closes more than it has opened
WellFormed(s) ==
    /\ Depth(s) = 0
    /\ \A k \in 1..Len(s) : Depth(SubSeq(s, 1, k)) >= 0

InitSpan ==
    /\ NoCall
    /\ pc = "args"
    /\ ret = <<>>
    /\ \E t \in TextsUpTo({LP, RP, "a"}, MaxLen) :
          /\ WellFormed(t)
          /\ \E i \in 1..Len(t), j \in 1..Len(t) :
                /\ i <= j
                /\ arg = [content |-> t, subsection |-> SubSeq(t, i, j)]

ApplyExtractSubsection ==
    /\ pc = "args"
    /\ ret' = extract_subsection(arg.content, arg.subsection)
    /\ pc' = "returned"
    /\ UNCHANGED <<files, op, path, components, wires, ci, wi, doc, err,
                   nextUuid, arg>>

NextSpan == ApplyExtractSubsection

SpecSpan == InitSpan /\ [][NextSpan]_vars

\* text placed before and after the property that is read
PropertyContexts ==
    {[before |-> <<>>, after |-> <<RP>>],
     [before |-> SymbolAnchor(<<"R">>) \o <<NL, SP>>,
      after |-> <<NL>> \o Line(<<LP, "at", SP, "0", SP, "0", SP, "0", RP>>)
                \o Line(<<RP>>) \o <<RP>>],
     [before |-> SymbolAnchor(<<"R">>) \o <<NL, SP>>,
      after |-> <<RP, NL>> \o LibProperty("Other", <<"c">>) \o <<RP>>]}

InitProp ==
    /\ NoCall
    /\ pc = "args"
    /\ ret = <<>>
    /\ \E name \in {"Value", "Description"},
          value \in TextsUpTo({"a", "b"}, MaxVal),
          context \in PropertyContexts :
          arg = [subsection |-> context.before \o PropertyTag(name) \o <<SP>>
                                \o Quoted(value) \o context.after,
                 property_name |-> name,
                 value |-> value]

ApplyExtractPropertyValue ==
    /\ pc = "args"
    /\ ret' = extract_property_value(arg.subsection, arg.property_name)
    /\ pc' = "returned"
    /\ UNCHANGED <<files, op, path, components, wires, ci, wi, doc, err,
                   nextUuid, arg>>

NextProp == ApplyExtractPropertyValue

SpecProp == InitProp /\ [][NextProp]_vars

(***************************************************************************)
(* Vocabulary of the properties                                            *)
(***************************************************************************)
Occurrences(s, sub) == {i \in 0..(Len(s) - Len(sub)) : StartsAt(s, sub, i)}

Count(s, sub) == Cardinality(Occurrences(s, sub))

RECURSIVE SortedSeq(_)
SortedSeq(S) ==
    IF S = {} THEN <<>>
    ELSE LET m == CHOOSE x \in S : \A y \in S : x <= y
         IN  <<m>> \o SortedSeq(S \ {m})

\* <<lowest depth after a token of s[lo..hi], depth after s[hi]>>, both
\* relative to the depth before s[lo] (1-based, lo <= hi)
RECURSIVE Profile(_, _, _)
Profile(s, lo, hi) ==
    IF lo = hi
    THEN LET d == IF s[lo] = LP THEN 1 ELSE IF s[lo] = RP THEN -1 ELSE 0
         IN  <<d, d>>
    ELSE LET mid == (lo + hi) \div 2
             l == Profile(s, lo, mid)
             r == Profile(s, mid + 1, hi)
         IN  <<Min(l[1], l[2] + r[1]), l[2] + r[2]>>

\* the depth stays positive after the opening parenthesis of the root and
\* comes back to zero at the last token, which closes the root
WellNested(s) ==
    /\ Len(s) >= 2
    /\ s[Len(s)] = RP
    /\ Profile(s, 1, Len(s) - 1) = <<1, 1>>

InstanceStarts(d) == Occurrences(d, InstanceHeader)
WireStarts(d) == Occurrences(d, WireHeader)
DefinitionStarts(d) ==
    UNION {Occurrences(d, SymbolAnchor(c.lib_id)) : c \in ComponentDescriptors}

\* a lifecycle call holds a document in temp_kicad_sch_file
HoldsDocument == pc \in {"fold", "done"}

\* ... a document built from the empty skeleton
FromSkeleton ==
    /\ HoldsDocument
    /\ \/ op = "create"
       \/ op = "modify" /\ path = EarlierPath

\* the text strictly between the quote at index q and the next quote
QuotedAt(s, q) == Slice(s, q + 1, Find(s, <<QT>>, q + 1))

(***************************************************************************)
(* C2 and C3: the text primitives                                          *)
(***************************************************************************)
\* C2: extract_property_value returns exactly the value V of the first
\* (property "X" "V" ...) of the subsection, for every quote-free V,
\* the empty and the one-character values included.
C2_ReadPropertyRoundTrip == pc = "returned" => ret = <<arg.value>>

\* what C3 promises of the result r of extract_subsection(t, a): a triple
\* whose start is the first occurrence of a, whose span is balanced, and
\* whose end is the first index after start where the depth is back to zero
BalancedMinimalSpan(t, a, r) ==
    /\ r # None
    /\ StartsAt(t, a, r[1])
    /\ \A k \in 0..(r[1] - 1) : ~StartsAt(t, a, k)
    /\ r[2] > r[1]
    /\ r[3] = Slice(t, r[1], r[2])
    /\ Depth(r[3]) = 0
    /\ \A e \in (r[1] + 1)..(r[2] - 1) : Depth(Slice(t, r[1], e)) # 0

\* C3 as stated: for every well-formed balanced text and every anchor that
\* occurs in it, whatever its first character, extract_subsection returns
\* the balanced minimal span at the anchor's first occurrence.
C3_AnyAnchor ==
    pc = "returned" => BalancedMinimalSpan(arg.content, arg.subsection, ret)

\* C3 amended: the same for every anchor that does not start with a
\* closing parenthesis.
C3_AnchorNotClosing ==
    (pc = "returned" /\ arg.subsection[1] # RP)
        => BalancedMinimalSpan(arg.content, arg.subsection, ret)

\* C3 witness: a nested span found at an opening parenthesis that is not
\* the first character of the text
C3_NestedSpanFound ==
    /\ pc = "returned"
    /\ arg.subsection[1] = LP
    /\ ret # None
    /\ ret[1] > 0
    /\ ret[2] - ret[1] >= 4

(***************************************************************************)
(* C1, C5, C6, C9, C10: the documents the assembler builds                 *)
(***************************************************************************)
\* C1: in a document that has a lib_symbols section, the section holds at
\* most one definition (symbol "<lib_id>" per lib_id, however many times
\* components with that lib_id have been inserted.
C1_OneDefinitionPerLibId ==
    HoldsDocument =>
        LET libSymbols == extract_subsection(doc, LibSymbolsAnchor)
        IN  libSymbols # None =>
                \A c \in ComponentDescriptors :
                    Count(libSymbols[3], SymbolAnchor(c.lib_id)) <= 1

\* index p lies directly inside the parenthesis pair of the section that
\* spans section[1]..section[2]
DirectlyInside(d, section, p) ==
    /\ section[1] < p
    /\ p < section[2]
    /\ Depth(Slice(d, section[1], p)) = 1

\* C5 as stated: in a document built from the empty skeleton, every symbol
\* definition and every placed symbol instance lies directly inside the
\* parenthesis pair of the lib_symbols section.
C5_AllInsideLibSymbols ==
    FromSkeleton =>
        LET libSymbols == extract_subsection(doc, LibSymbolsAnchor)
        IN  /\ libSymbols # None
            /\ \A p \in DefinitionStarts(doc) \cup InstanceStarts(doc) :
                   DirectlyInside(doc, libSymbols, p)

\* C5 amended: every symbol definition lies directly inside the
\* parenthesis pair of the lib_symbols section, and every placed symbol
\* instance lies outside it, after the section's closing parenthesis.
C5_DefinitionsInsideInstancesAfter ==
    FromSkeleton =>
        LET libSymbols == extract_subsection(doc, LibSymbolsAnchor)
        IN  /\ libSymbols # None
            /\ \A p \in DefinitionStarts(doc) :
                   DirectlyInside(doc, libSymbols, p)
            /\ \A p \in InstanceStarts(doc) : p >= libSymbols[2]

\* C5 witness: a document built from the skeleton that holds two
\* definitions and two instances
C5_TwoComponentsPlaced ==
    /\ FromSkeleton
    /\ Cardinality(DefinitionStarts(doc)) >= 2
    /\ Cardinality(InstanceStarts(doc)) >= 2

\* the resolved definition of the instance at p has no such property
LacksProperty(d, p, name) ==
    LET lib_id == QuotedAt(d, p + Len(InstanceHeader) - 1)
    IN  Count(extract_symbol_definition(lib_id).def, PropertyTag(name)) = 0

\* the value the instance at p carries for the property
InstanceValue(d, p, name) ==
    LET tag == Find(d, PropertyTag(name) \o <<SP, QT>>, p)
    IN  QuotedAt(d, tag + Len(PropertyTag(name)) + 1)

\* C6: an instance whose resolved definition has no Description (or no
\* Value) property carries the empty value "" for it.
C6_MissingPropertyIsEmpty ==
    HoldsDocument =>
        \A p \in InstanceStarts(doc) :
            \A name \in {"Description", "Value"} :
                LacksProperty(doc, p, name)
                    => InstanceValue(doc, p, name) = <<>>

XY(x, y) == <<LP, "xy", SP>> \o Str(x) \o <<SP>> \o Str(y) \o <<RP>>

\* how the block of a component or of a wire begins
InstanceOf(c) ==
    InstanceHeader \o c.lib_id \o <<QT, RP, NL, SP, LP, "at", SP>>
    \o Str(c.x) \o <<SP>> \o Str(c.y) \o <<SP>> \o Str(c.angle) \o <<RP>>

WireOf(w) ==
    WireHeader \o Line(<<LP, "pts">>)
    \o <<SP>> \o XY(w.x, w.y) \o <<SP>> \o XY(w.end_x, w.end_y)

\* C9: while create_kicad_sch_file folds its lists over the empty skeleton,
\* the document holds one block per inserted component and wire, in the
\* reverse of the insertion order: the last wire first, the first
\* component last.
C9_BlocksInReverseOrder ==
    (HoldsDocument /\ op = "create") =>
        LET blocks == SortedSeq(InstanceStarts(doc) \cup WireStarts(doc))
        IN  /\ Len(blocks) = ci + wi
            /\ \A k \in 1..Len(blocks) :
                   IF k <= wi
                   THEN StartsAt(doc, WireOf(wires[wi + 1 - k]), blocks[k])
                   ELSE StartsAt(doc,
                                 InstanceOf(components[ci + wi + 1 - k]),
                                 blocks[k])

\* C9 witness: create has folded two different components and two
\* different wires
C9_TwoAndTwoFolded ==
    /\ op = "create"
    /\ pc = "done"
    /\ ci = 2
    /\ wi = 2
    /\ components[1] # components[2]
    /\ wires[1] # wires[2]

\* C10: the empty skeleton is well nested with an empty lib_symbols
\* section and no symbol or wire block, and every document built from it
\* by successful insertions is well nested: the depth never goes negative
\* and is back to zero exactly at the close of the kicad_sch root.
C10_BalancedParentheses ==
    /\ (pc = "fold" /\ op = "create" /\ ci = 0 /\ wi = 0) =>
           /\ Count(doc, <<LP, "lib_symbols", RP>>) = 1
           /\ DefinitionStarts(doc) \cup InstanceStarts(doc)
                  \cup WireStarts(doc) = {}
    /\ FromSkeleton => WellNested(doc)

(***************************************************************************)
(* C4, C7, C8: the steps of the folds                                      *)
(***************************************************************************)
\* C4: a step of a fold that fails changes no stored file, and the stored
\* files change only in the step that follows the completion of both folds.
C4_FilesChangeOnlyAfterFolds ==
    [][/\ pc' = "raised" => files' = files
       /\ files' # files =>
              /\ pc = "fold"
              /\ ci = Len(components)
              /\ wi = Len(wires)
              /\ err = ""
              /\ pc' = "done"]_vars

\* C4 witness: modify_kicad_sch_file has failed in the middle of the
\* components fold, after one successful insertion
C4_FailedMidFold ==
    /\ pc = "raised"
    /\ op = "modify"
    /\ ci >= 1
    /\ ci < Len(components)

\* the step is an application of add_wire_to_kicad_sch_file
WireStep == pc = "fold" /\ ci = Len(components) /\ wi < Len(wires)

\* new is old with one text spliced in, which holds exactly one wire block,
\* the one of w
WireSpliced(old, new, w) ==
    LET k == Len(new) - Len(old)
    IN  /\ k > 0
        /\ \E p \in 0..Len(old) :
               /\ SliceTo(new, p) = SliceTo(old, p)
               /\ SliceFrom(new, p + k) = SliceFrom(old, p)
               /\ Count(Slice(new, p, p + k), WireOf(w)) = 1
        /\ Count(new, <<LP, "wire">>) = Count(old, <<LP, "wire">>) + 1

C8_LibSymbolsNotFound ==
    [][(/\ pc = "fold"
        /\ ci < Len(components)
        /\ extract_subsection(doc, LibSymbolsAnchor) = None)
           => /\ pc' = "raised"
              /\ err' = "lib_symbols not found"]_vars

====
